---- MODULE Spec2Model ----
(***************************************************************************)
(* Model of the smux state-machine engine                                  *)
(* (packages/smux/src/createStateMachine.ts).                              *)
(*                                                                         *)
(* The engine is single threaded and re-entrant: send, stop and the        *)
(* constructor call user code (enter effects, cleanup functions and        *)
(* listeners), and that user code may call back into the engine.  The      *)
(* model keeps the JavaScript call stack explicitly.  Every frame of the   *)
(* stack is either a function of the engine, whose steps are the segments  *)
(* of its code between two calls, or a user callback, whose behaviour is   *)
(* an input chosen from a small repertoire.  Exactly one frame, the top    *)
(* one, can take a step; a caller gets a turn only when the stack is       *)
(* empty.                                                                  *)
(***************************************************************************)
EXTENDS Integers, Sequences, FiniteSets, TLC

VARIABLES
  initial,       \* config.initial
  machine,       \* "building" | "returned" | "failed": what the constructor gave its caller
  currentState,  \* let currentState
  cleanup,       \* let cleanup: 0 = undefined, else the token of the activation whose effect returned it
  token,         \* let token: the n-th Symbol allocated
  cachedState,   \* let cachedState: the Snapshot object, id = allocation number
  allocs,        \* number of Snapshot objects allocated so far
  listeners,     \* the Set of listeners, in insertion order
  stack,         \* the call stack, innermost frame last
  ret,           \* completion of the frame that was popped last: none, ok(value) or throw(value)
  promises,      \* tokens of the activations whose deferred computation has not settled yet
  acts,          \* history: the enter-effect invocations by token, kept while the activation can still act
  live,          \* history: the token of the current activation, 0 once stop() has completed
  call,          \* history: the call of a caller that is running or ran last, and the state it found
  cleanupCalls,  \* history: the tokens of the cleanup functions invoked, in order, kept likewise
  notes          \* history: the listener invocations <<listener, snapshot id>> of that call, in order

vars == <<initial, machine, currentState, cleanup, token, cachedState, allocs,
          listeners, stack, ret, promises, acts, live, call, cleanupCalls, notes>>

(***************************************************************************)
(* Bounds                                                                  *)
(***************************************************************************)
MaxToken == 4        \* no call that can allocate a token starts once this many were allocated
MaxDepth == 4        \* user code starts no nested call on a stack this deep
MaxEffectSends == 1  \* ctx.send calls one effect invocation makes synchronously

(***************************************************************************)
(* Values: undefined, plain values, SmuxError objects                      *)
(***************************************************************************)
Undefined == <<"undefined">>
Val(x) == <<"val", x>>
None == "-"

\* new SmuxError({ phase, ...meta }, { cause })
SmuxError(phase, meta, cause) == <<"SmuxError", phase, meta.from, meta.event, meta.to, cause>>
IsSmuxError(v) == v[1] = "SmuxError"
Phase(v) == v[2]
Cause(v) == v[6]

Meta(from, event, to) == [from |-> from, event |-> event, to |-> to]
NoMeta == Meta(None, None, None)

NoRet == [k |-> "none"]
Ok(v) == [k |-> "ok", v |-> v]
Throw(v) == [k |-> "throw", v |-> v]

(***************************************************************************)
(* The configuration the machine is built from                             *)
(***************************************************************************)
States == {"a", "b", "c"}
Listeners == {"L1", "L2"}
Events == {"GO", "SELF", "SUCCESS", "ERROR", "BAD", "NOPE"}
Payloads == {Undefined, Val("p1")}
\* what user code passes when it calls back into the machine
EffectEvents == {"GO", "NOPE"}
EffectPayloads == {Val("e1")}
CleanupEvents == {"GO"}
ListenerEvents == {"GO"}
ListenerPayloads == {Val("l1")}
LateEvents == {"GO", "NOPE"}
LatePayloads == {Val("t1")}

\* config.states[s].on, in declaration order; "ghost" is a target that is no key of config.states
Table ==
  [a |-> << <<"GO", "b">>, <<"SELF", "a">>, <<"SUCCESS", "c">>, <<"ERROR", "b">> >>,
   b |-> << <<"GO", "c">>, <<"ERROR", "a">> >>,
   c |-> << <<"GO", "a">>, <<"BAD", "ghost">> >>]

\* config.states[s]?.on ?? {}
OnOf(s) == IF s \in DOMAIN Table THEN Table[s] ELSE <<>>

\* a lookup that routes an event the state does not declare to its first transition
TargetOfFallsBack(s, event) ==
  IF \E i \in 1..Len(OnOf(s)) : OnOf(s)[i][1] = event
  THEN OnOf(s)[CHOOSE i \in 1..Len(OnOf(s)) : OnOf(s)[i][1] = event][2]
  ELSE IF Len(OnOf(s)) > 0 THEN OnOf(s)[1][2] ELSE None

\* config.states[s]?.on?.[event]
TargetOf(s, event) ==
  IF \E i \in 1..Len(OnOf(s)) : OnOf(s)[i][1] = event
  THEN OnOf(s)[CHOOSE i \in 1..Len(OnOf(s)) : OnOf(s)[i][1] = event][2]
  ELSE None

\* event in config.states[s].on
Declares(s, event) == TargetOf(s, event) # None

\* isFunction(config.states[s]?.run)
HasRun(s) == s \in States

\* a getNextEvents that returns the list of the Snapshot in place
getNextEventsStale(s) == cachedState.nextEvents

\* getNextEvents(): Object.keys(on)
getNextEvents(s) == [i \in 1..Len(OnOf(s)) |-> OnOf(s)[i][1]]

\* a send that forgets the self-transition test
IsNoopIgnoringSelf(s, event) == TargetOf(s, event) = None

\* send's early return: no target, or the target is the current state
IsNoop(s, event) == TargetOf(s, event) = None \/ TargetOf(s, event) = s

(***************************************************************************)
(* Frames                                                                  *)
(***************************************************************************)
Top == stack[Len(stack)]
Running(kind, pc) == stack # <<>> /\ Top.kind = kind /\ Top.pc = pc
Idle == stack = <<>>

Pop(r) == stack' = SubSeq(stack, 1, Len(stack) - 1) /\ ret' = r
\* the top frame moves on and calls g
Call(f, g) == stack' = Append([stack EXCEPT ![Len(stack)] = f], g) /\ ret' = NoRet

\* a send frame also remembers what the call found (the active state, the
\* Snapshot, the listeners, the effects, the listener invocations so far and
\* the cleanup handle), the activation it started and the Snapshot it made, 0
\* while it has committed nothing, and the Snapshot it passed to the last
\* listener it called, 0 while it has called none
SendFrame(event, payload) ==
  [kind |-> "send", pc |-> "start", event |-> event, payload |-> payload,
   meta |-> NoMeta, idx |-> 0, act |-> 0, made |-> 0, passed |-> 0,
   pre |-> [state |-> currentState, snap |-> cachedState, listeners |-> listeners,
            effects |-> DOMAIN acts, notes |-> notes, cleanup |-> cleanup]]
RunFrame(meta, payload) ==
  [kind |-> "run", pc |-> "start", meta |-> meta, payload |-> payload,
   myToken |-> 0, e |-> Undefined, beforeToken |-> 0]
GuardedFrame(myToken, event, payload) ==
  [kind |-> "guardedSend", pc |-> "start", myToken |-> myToken, event |-> event,
   payload |-> payload, superseded |-> myToken # live]
StopFrame == [kind |-> "stop", pc |-> "start"]
CtorFrame == [kind |-> "ctor", pc |-> "start"]
SettleFrame(myToken, pc) == [kind |-> "settle", pc |-> pc, myToken |-> myToken]
EffectFrame(myToken, meta, payload) ==
  [kind |-> "effect", pc |-> "body", myToken |-> myToken, meta |-> meta, payload |-> payload,
   sends |-> 0]
CleanupFrame(owner) == [kind |-> "cleanupFn", pc |-> "body", owner |-> owner, calls |-> 0]
ListenerFrame(l, snap) == [kind |-> "listener", pc |-> "body", l |-> l, snap |-> snap, calls |-> 0]

(***************************************************************************)
(* Initial state: the declarations of createStateMachine, before its body  *)
(* runs                                                                    *)
(***************************************************************************)
Init ==
  /\ initial \in {"a", "c"}
  /\ machine = "building"
  /\ currentState = initial
  /\ cleanup = 0
  /\ token = 1
  /\ cachedState = [id |-> 0, value |-> initial, nextEvents |-> <<>>, payload |-> Undefined]
  /\ allocs = 1
  /\ listeners = <<>>
  /\ stack = <<CtorFrame>>
  /\ ret = NoRet
  /\ promises = {}
  /\ acts = <<>>
  /\ live = 0
  /\ call = [op |-> "new", event |-> None, payload |-> Undefined, myToken |-> 0,
             pre |-> [state |-> initial, snap |-> 0, cleanup |-> 0, token |-> 1,
                      listeners |-> <<>>, live |-> 0]]
  /\ cleanupCalls = <<>>
  /\ notes = <<>>

(***************************************************************************)
(* Engine: helpers shared by the steps                                     *)
(***************************************************************************)
HasRet == ret.k # "none"

\* a recomputeCachedState that fills in the object it finds
SnapshotInPlace(s, payload) ==
  [id |-> cachedState.id, value |-> s, nextEvents |-> getNextEvents(s), payload |-> payload]

\* recomputeCachedState(payload): a newly allocated Snapshot of state s
Snapshot(s, payload) ==
  [id |-> allocs, value |-> s, nextEvents |-> getNextEvents(s), payload |-> payload]

\* a transition that keeps the payload of the Snapshot it replaces
TransitionKeepsPayload(f) ==
  /\ token' = token + 1
  /\ live' = token + 1
  /\ currentState' = f.meta.to
  /\ cachedState' = Snapshot(f.meta.to, cachedState.payload)
  /\ allocs' = allocs + 1
  /\ Call([f EXCEPT !.pc = "run", !.act = token + 1, !.made = allocs],
          RunFrame(f.meta, f.payload))

\* send, lines 153-156: invalidateToken(); currentState = target;
\* recomputeCachedState(payload); runEnterEffect(meta, payload) is called
Transition(f) ==
  /\ token' = token + 1
  /\ live' = token + 1
  /\ currentState' = f.meta.to
  /\ cachedState' = Snapshot(f.meta.to, f.payload)
  /\ allocs' = allocs + 1
  /\ Call([f EXCEPT !.pc = "run", !.act = token + 1, !.made = allocs],
          RunFrame(f.meta, f.payload))

\* a notify that hands out the Snapshot its own send made
NotifyLoopOwnSnapshot(f) ==
  IF f.idx < Len(listeners)
  THEN /\ Call([f EXCEPT !.pc = "notify", !.idx = f.idx + 1, !.passed = f.made],
               ListenerFrame(listeners[f.idx + 1], f.made))
       /\ notes' = Append(notes, <<listeners[f.idx + 1], f.made>>)
  ELSE /\ Pop(Ok(Undefined))
       /\ UNCHANGED notes

\* notify(): the for-of loop over the Set, f.idx listeners visited so far
NotifyLoop(f) ==
  IF f.idx < Len(listeners)
  THEN /\ Call([f EXCEPT !.pc = "notify", !.idx = f.idx + 1, !.passed = cachedState.id],
               ListenerFrame(listeners[f.idx + 1], cachedState.id))
       /\ notes' = Append(notes, <<listeners[f.idx + 1], cachedState.id>>)
  ELSE /\ Pop(Ok(Undefined))
       /\ UNCHANGED notes

(***************************************************************************)
(* Engine: createStateMachine body, lines 165-173                          *)
(***************************************************************************)
CtorStart ==
  /\ Running("ctor", "start")
  /\ token' = token + 1
  /\ live' = token + 1
  /\ cachedState' = Snapshot(currentState, Undefined)
  /\ allocs' = allocs + 1
  /\ Call([Top EXCEPT !.pc = "run"], RunFrame(Meta(None, None, currentState), Undefined))
  /\ UNCHANGED <<initial, machine, currentState, cleanup, listeners, promises, acts, call,
                 cleanupCalls, notes>>

CtorReturn ==
  /\ Running("ctor", "run") /\ HasRet
  /\ IF ret.k = "ok"
     THEN machine' = "returned" /\ Pop(Ok(Undefined))
     ELSE /\ machine' = "failed"
          /\ Pop(Throw(SmuxError("init", Meta(currentState, None, None), ret.v)))
  /\ UNCHANGED <<initial, currentState, cleanup, token, live, cachedState, allocs, listeners,
                 promises, acts, call, cleanupCalls, notes>>

(***************************************************************************)
(* Engine: send, lines 140-158, with safeCleanup and notify                *)
(***************************************************************************)
\* a send that commits without calling safeCleanup
SendLookupSkipsCleanup ==
  /\ Running("send", "start")
  /\ LET target == TargetOf(currentState, Top.event)
         f == [Top EXCEPT !.meta = Meta(currentState, Top.event, target)]
     IN IF IsNoop(currentState, Top.event)
        THEN /\ Pop(Ok(Undefined))
             /\ UNCHANGED <<currentState, cleanup, token, live, cachedState, allocs, cleanupCalls>>
        ELSE /\ cleanup' = 0
             /\ Transition(f)
             /\ UNCHANGED cleanupCalls
  /\ UNCHANGED <<initial, machine, listeners, promises, acts, call, notes>>

SendLookup ==
  /\ Running("send", "start")
  /\ LET target == TargetOf(currentState, Top.event)
         f == [Top EXCEPT !.meta = Meta(currentState, Top.event, target)]
     IN IF IsNoop(currentState, Top.event)
        THEN /\ Pop(Ok(Undefined))
             /\ UNCHANGED <<currentState, cleanup, token, live, cachedState, allocs, cleanupCalls>>
        ELSE IF cleanup # 0
        THEN /\ Call([f EXCEPT !.pc = "cleanup"], CleanupFrame(cleanup))
             /\ cleanupCalls' = Append(cleanupCalls, cleanup)
             /\ UNCHANGED <<currentState, cleanup, token, live, cachedState, allocs>>
        ELSE /\ cleanup' = 0
             /\ Transition(f)
             /\ UNCHANGED cleanupCalls
  /\ UNCHANGED <<initial, machine, listeners, promises, acts, call, notes>>

\* a safeCleanup that keeps the handle
safeCleanupFinallyKeeps == cleanup' = cleanup

\* safeCleanup, lines 70-72: finally { cleanup = undefined }
safeCleanupFinally == cleanup' = 0

\* a send that assigns the target before it runs the cleanup
SendCleanedAfterCommit ==
  /\ Running("send", "cleanup") /\ HasRet
  /\ cleanup' = 0
  /\ IF ret.k = "ok"
     THEN Transition(Top)
     ELSE /\ Pop(Throw(SmuxError("cleanup", Top.meta, ret.v)))
          /\ currentState' = Top.meta.to
          /\ UNCHANGED <<token, live, cachedState, allocs>>
  /\ UNCHANGED <<initial, machine, listeners, promises, acts, call, cleanupCalls, notes>>

SendCleaned ==
  /\ Running("send", "cleanup") /\ HasRet
  /\ safeCleanupFinally
  /\ IF ret.k = "ok"
     THEN Transition(Top)
     ELSE /\ Pop(Throw(SmuxError("cleanup", Top.meta, ret.v)))
          /\ UNCHANGED <<currentState, token, live, cachedState, allocs>>
  /\ UNCHANGED <<initial, machine, listeners, promises, acts, call, cleanupCalls, notes>>

\* a send that assigns its target again once the effect has returned
SendEnteredCommitsAgain ==
  /\ Running("send", "run") /\ HasRet
  /\ currentState' = Top.meta.to
  /\ IF ret.k = "ok"
     THEN NotifyLoop(Top)
     ELSE Pop(ret) /\ UNCHANGED notes
  /\ UNCHANGED <<initial, machine, cleanup, token, live, cachedState, allocs,
                 listeners, promises, acts, call, cleanupCalls>>

SendEntered ==
  /\ Running("send", "run") /\ HasRet
  /\ IF ret.k = "ok"
     THEN NotifyLoop(Top)
     ELSE Pop(ret) /\ UNCHANGED notes
  /\ UNCHANGED <<initial, machine, currentState, cleanup, token, live, cachedState, allocs,
                 listeners, promises, acts, call, cleanupCalls>>

\* a notify that ends its pass when a listener has changed the state
SendNotifiedStopsAfterChange ==
  /\ Running("send", "notify") /\ HasRet
  /\ IF ret.k = "ok"
     THEN IF cachedState.id # Top.passed
          THEN Pop(Ok(Undefined)) /\ UNCHANGED notes
          ELSE NotifyLoop(Top)
     ELSE Pop(ret) /\ UNCHANGED notes
  /\ UNCHANGED <<initial, machine, currentState, cleanup, token, live, cachedState, allocs,
                 listeners, promises, acts, call, cleanupCalls>>

SendNotified ==
  /\ Running("send", "notify") /\ HasRet
  /\ IF ret.k = "ok"
     THEN NotifyLoop(Top)
     ELSE Pop(ret) /\ UNCHANGED notes
  /\ UNCHANGED <<initial, machine, currentState, cleanup, token, live, cachedState, allocs,
                 listeners, promises, acts, call, cleanupCalls>>

(***************************************************************************)
(* Engine: runEnterEffect, lines 83-117                                    *)
(***************************************************************************)
\* a runEnterEffect that names the entered state as the one the machine came from
RunStartStaleMeta ==
  /\ Running("run", "start")
  /\ IF ~HasRun(currentState)
     THEN Pop(Ok(Undefined)) /\ UNCHANGED acts
     ELSE /\ Call([Top EXCEPT !.pc = "effect", !.myToken = token],
                  EffectFrame(token, Meta(Top.meta.to, Top.meta.event, Top.meta.to),
                              Top.payload))
          /\ acts' = acts @@ (token :> [state |-> currentState, result |-> "running",
                                        e |-> Undefined, moved |-> FALSE])
  /\ UNCHANGED <<initial, machine, currentState, cleanup, token, live, cachedState, allocs,
                 listeners, promises, call, cleanupCalls, notes>>

RunStart ==
  /\ Running("run", "start")
  /\ IF ~HasRun(currentState)
     THEN Pop(Ok(Undefined)) /\ UNCHANGED acts
     ELSE /\ Call([Top EXCEPT !.pc = "effect", !.myToken = token],
                  EffectFrame(token, Top.meta, Top.payload))
          /\ acts' = acts @@ (token :> [state |-> currentState, result |-> "running",
                                        e |-> Undefined, moved |-> FALSE])
  /\ UNCHANGED <<initial, machine, currentState, cleanup, token, live, cachedState, allocs,
                 listeners, promises, call, cleanupCalls, notes>>

\* a runEnterEffect that sends ERROR without the thrown value
RunReturnedDropsCause ==
  /\ Running("run", "effect") /\ HasRet
  /\ IF ret.k = "throw"
     THEN /\ Call([Top EXCEPT !.pc = "recover", !.e = ret.v, !.beforeToken = token],
                  GuardedFrame(Top.myToken, "ERROR", Undefined))
          /\ UNCHANGED <<cleanup, promises>>
     ELSE /\ Pop(Ok(Undefined))
          /\ cleanup' = IF ret.v = <<"function">> THEN Top.myToken ELSE cleanup
          /\ promises' = IF ret.v = <<"promise">> THEN promises \cup {Top.myToken} ELSE promises
  /\ acts' = [acts EXCEPT ![Top.myToken] =
                 [@ EXCEPT !.result = IF ret.k = "throw" THEN "throw" ELSE ret.v[1],
                           !.e = IF ret.k = "throw" THEN ret.v ELSE Undefined,
                           !.moved = token # Top.myToken]]
  /\ UNCHANGED <<initial, machine, currentState, token, live, cachedState, allocs, listeners,
                 call, cleanupCalls, notes>>

RunReturned ==
  /\ Running("run", "effect") /\ HasRet
  /\ IF ret.k = "throw"
     THEN /\ Call([Top EXCEPT !.pc = "recover", !.e = ret.v, !.beforeToken = token],
                  GuardedFrame(Top.myToken, "ERROR", ret.v))
          /\ UNCHANGED <<cleanup, promises>>
     ELSE /\ Pop(Ok(Undefined))
          /\ cleanup' = IF ret.v = <<"function">> THEN Top.myToken ELSE cleanup
          /\ promises' = IF ret.v = <<"promise">> THEN promises \cup {Top.myToken} ELSE promises
  /\ acts' = [acts EXCEPT ![Top.myToken] =
                 [@ EXCEPT !.result = IF ret.k = "throw" THEN "throw" ELSE ret.v[1],
                           !.e = IF ret.k = "throw" THEN ret.v ELSE Undefined,
                           !.moved = token # Top.myToken]]
  /\ UNCHANGED <<initial, machine, currentState, token, live, cachedState, allocs, listeners,
                 call, cleanupCalls, notes>>

\* a runEnterEffect that rethrows the effect's own exception
RunRecoveredBare ==
  /\ Running("run", "recover") /\ HasRet
  /\ IF ret.k = "throw"
     THEN Pop(ret)
     ELSE IF token = Top.beforeToken
          THEN Pop(Throw(Top.e))
          ELSE Pop(Ok(Undefined))
  /\ UNCHANGED <<initial, machine, currentState, cleanup, token, live, cachedState, allocs,
                 listeners, promises, acts, call, cleanupCalls, notes>>

RunRecovered ==
  /\ Running("run", "recover") /\ HasRet
  /\ IF ret.k = "throw"
     THEN Pop(ret)
     ELSE IF token = Top.beforeToken
          THEN Pop(Throw(SmuxError("enter", Top.meta, Top.e)))
          ELSE Pop(Ok(Undefined))
  /\ UNCHANGED <<initial, machine, currentState, cleanup, token, live, cachedState, allocs,
                 listeners, promises, acts, call, cleanupCalls, notes>>

\* the state whose effect was given the guarded sender of token t; the record
\* of the first activation may have been dropped
CapturedIn(t) == IF t \in DOMAIN acts THEN acts[t].state ELSE initial

\* a guarded sender that compares states instead of tokens
GuardedCheckByState ==
  /\ Running("guardedSend", "start")
  /\ IF CapturedIn(Top.myToken) = currentState
     THEN Call([Top EXCEPT !.pc = "ret"], SendFrame(Top.event, Top.payload))
     ELSE Pop(Ok(Undefined))
  /\ UNCHANGED <<initial, machine, currentState, cleanup, token, live, cachedState, allocs,
                 listeners, promises, acts, call, cleanupCalls, notes>>

\* guardedSend, lines 90-94
GuardedCheck ==
  /\ Running("guardedSend", "start")
  /\ IF token = Top.myToken
     THEN Call([Top EXCEPT !.pc = "ret"], SendFrame(Top.event, Top.payload))
     ELSE Pop(Ok(Undefined))
  /\ UNCHANGED <<initial, machine, currentState, cleanup, token, live, cachedState, allocs,
                 listeners, promises, acts, call, cleanupCalls, notes>>

\* a guarded sender that swallows what send raised
GuardedReturnSwallows ==
  /\ Running("guardedSend", "ret") /\ HasRet
  /\ Pop(Ok(Undefined))
  /\ UNCHANGED <<initial, machine, currentState, cleanup, token, live, cachedState, allocs,
                 listeners, promises, acts, call, cleanupCalls, notes>>

GuardedReturn ==
  /\ Running("guardedSend", "ret") /\ HasRet
  /\ Pop(ret)
  /\ UNCHANGED <<initial, machine, currentState, cleanup, token, live, cachedState, allocs,
                 listeners, promises, acts, call, cleanupCalls, notes>>

(***************************************************************************)
(* Engine: stop, lines 159-162, with safeCleanup                           *)
(***************************************************************************)
\* a stop that recomputes the Snapshot
StopStartRefreshesSnapshot ==
  /\ Running("stop", "start")
  /\ cachedState' = Snapshot(currentState, Undefined)
  /\ allocs' = allocs + 1
  /\ IF cleanup # 0
     THEN /\ Call([Top EXCEPT !.pc = "cleanup"], CleanupFrame(cleanup))
          /\ cleanupCalls' = Append(cleanupCalls, cleanup)
          /\ UNCHANGED <<cleanup, token, live>>
     ELSE /\ cleanup' = 0
          /\ token' = token + 1
          /\ live' = 0
          /\ Pop(Ok(Undefined))
          /\ UNCHANGED cleanupCalls
  /\ UNCHANGED <<initial, machine, currentState, listeners, promises, acts, call, notes>>

StopStart ==
  /\ Running("stop", "start")
  /\ IF cleanup # 0
     THEN /\ Call([Top EXCEPT !.pc = "cleanup"], CleanupFrame(cleanup))
          /\ cleanupCalls' = Append(cleanupCalls, cleanup)
          /\ UNCHANGED <<cleanup, token, live>>
     ELSE /\ cleanup' = 0
          /\ token' = token + 1
          /\ live' = 0
          /\ Pop(Ok(Undefined))
          /\ UNCHANGED cleanupCalls
  /\ UNCHANGED <<initial, machine, currentState, cachedState, allocs, listeners, promises,
                 acts, call, notes>>

\* a stop whose cleanup step leaves the handle in place
StopCleanedKeepsHandle ==
  /\ Running("stop", "cleanup") /\ HasRet
  /\ cleanup' = cleanup
  /\ live' = 0
  /\ IF ret.k = "ok"
     THEN token' = token + 1 /\ Pop(Ok(Undefined))
     ELSE /\ Pop(Throw(SmuxError("cleanup", NoMeta, ret.v)))
          /\ UNCHANGED token
  /\ UNCHANGED <<initial, machine, currentState, cachedState, allocs, listeners, promises,
                 acts, call, cleanupCalls, notes>>

StopCleaned ==
  /\ Running("stop", "cleanup") /\ HasRet
  /\ safeCleanupFinally
  /\ live' = 0
  /\ IF ret.k = "ok"
     THEN token' = token + 1 /\ Pop(Ok(Undefined))
     ELSE /\ Pop(Throw(SmuxError("cleanup", NoMeta, ret.v)))
          /\ UNCHANGED token
  /\ UNCHANGED <<initial, machine, currentState, cachedState, allocs, listeners, promises,
                 acts, call, cleanupCalls, notes>>

(***************************************************************************)
(* Engine: the continuations of a deferred computation, lines 105-108      *)
(*   result.then(SUCCESS).catch(ERROR).catch(() => {})                     *)
(***************************************************************************)
\* a chain whose failure continuation calls machine.send itself
SettleThenSendsUnguarded ==
  /\ Running("settle", "then") /\ HasRet
  /\ IF ret.k = "ok"
     THEN Pop(Ok(Undefined))
     ELSE Call([Top EXCEPT !.pc = "catch"], SendFrame("ERROR", ret.v))
  /\ UNCHANGED <<initial, machine, currentState, cleanup, token, live, cachedState, allocs,
                 listeners, promises, acts, call, cleanupCalls, notes>>

SettleThen ==
  /\ Running("settle", "then") /\ HasRet
  /\ IF ret.k = "ok"
     THEN Pop(Ok(Undefined))
     ELSE Call([Top EXCEPT !.pc = "catch"], GuardedFrame(Top.myToken, "ERROR", ret.v))
  /\ UNCHANGED <<initial, machine, currentState, cleanup, token, live, cachedState, allocs,
                 listeners, promises, acts, call, cleanupCalls, notes>>

\* a chain without the final .catch(() => {})
SettleCatchRethrows ==
  /\ Running("settle", "catch") /\ HasRet
  /\ Pop(ret)
  /\ UNCHANGED <<initial, machine, currentState, cleanup, token, live, cachedState, allocs,
                 listeners, promises, acts, call, cleanupCalls, notes>>

SettleCatch ==
  /\ Running("settle", "catch") /\ HasRet
  /\ Pop(Ok(Undefined))
  /\ UNCHANGED <<initial, machine, currentState, cleanup, token, live, cachedState, allocs,
                 listeners, promises, acts, call, cleanupCalls, notes>>

(***************************************************************************)
(* User code: the enter effect  run(ctx)                                   *)
(***************************************************************************)
InUser(kind) == Running(kind, "body") /\ ret.k # "throw"
MayCall == token < MaxToken /\ Len(stack) < MaxDepth

\* the effect calls ctx.send(event, payload)
EffectSend(event, payload) ==
  /\ InUser("effect") /\ MayCall
  /\ Top.sends < MaxEffectSends
  /\ Call([Top EXCEPT !.sends = Top.sends + 1], GuardedFrame(Top.myToken, event, payload))
  /\ UNCHANGED <<initial, machine, currentState, cleanup, token, live, cachedState, allocs,
                 listeners, promises, acts, call, cleanupCalls, notes>>

\* the effect returns nothing, a cleanup function or a deferred computation
EffectReturn(result) ==
  /\ InUser("effect")
  /\ Pop(Ok(result))
  /\ UNCHANGED <<initial, machine, currentState, cleanup, token, live, cachedState, allocs,
                 listeners, promises, acts, call, cleanupCalls, notes>>

EffectThrow ==
  /\ InUser("effect") /\ token <= MaxToken
  /\ Pop(Throw(Val("boom")))
  /\ UNCHANGED <<initial, machine, currentState, cleanup, token, live, cachedState, allocs,
                 listeners, promises, acts, call, cleanupCalls, notes>>

(***************************************************************************)
(* User code: the cleanup function an effect returned                      *)
(***************************************************************************)
CleanupReturn ==
  /\ InUser("cleanupFn")
  /\ Pop(Ok(Undefined))
  /\ UNCHANGED <<initial, machine, currentState, cleanup, token, live, cachedState, allocs,
                 listeners, promises, acts, call, cleanupCalls, notes>>

CleanupThrow ==
  /\ InUser("cleanupFn")
  /\ Pop(Throw(Val("cboom")))
  /\ UNCHANGED <<initial, machine, currentState, cleanup, token, live, cachedState, allocs,
                 listeners, promises, acts, call, cleanupCalls, notes>>

\* the cleanup calls machine.stop()
CleanupCallsStop ==
  /\ InUser("cleanupFn") /\ MayCall
  /\ Top.calls = 0
  /\ Call([Top EXCEPT !.calls = 1], StopFrame)
  /\ UNCHANGED <<initial, machine, currentState, cleanup, token, live, cachedState, allocs,
                 listeners, promises, acts, call, cleanupCalls, notes>>

\* the cleanup calls machine.send(event, payload)
CleanupCallsSend(event, payload) ==
  /\ InUser("cleanupFn") /\ MayCall
  /\ Top.calls = 0
  /\ Call([Top EXCEPT !.calls = 1], SendFrame(event, payload))
  /\ UNCHANGED <<initial, machine, currentState, cleanup, token, live, cachedState, allocs,
                 listeners, promises, acts, call, cleanupCalls, notes>>

(***************************************************************************)
(* User code: a subscribed listener                                        *)
(***************************************************************************)
ListenerReturn ==
  /\ InUser("listener")
  /\ Pop(Ok(Undefined))
  /\ UNCHANGED <<initial, machine, currentState, cleanup, token, live, cachedState, allocs,
                 listeners, promises, acts, call, cleanupCalls, notes>>

ListenerThrow ==
  /\ InUser("listener")
  /\ Pop(Throw(Val("lboom")))
  /\ UNCHANGED <<initial, machine, currentState, cleanup, token, live, cachedState, allocs,
                 listeners, promises, acts, call, cleanupCalls, notes>>

\* the listener calls machine.send(event, payload)
ListenerCallsSend(event, payload) ==
  /\ InUser("listener") /\ MayCall
  /\ Top.calls = 0
  /\ Call([Top EXCEPT !.calls = 1], SendFrame(event, payload))
  /\ UNCHANGED <<initial, machine, currentState, cleanup, token, live, cachedState, allocs,
                 listeners, promises, acts, call, cleanupCalls, notes>>

\* user code does not catch what a call it made has thrown
Uncaught ==
  /\ stack # <<>> /\ Top.pc = "body" /\ ret.k = "throw"
  /\ Pop(ret)
  /\ UNCHANGED <<initial, machine, currentState, cleanup, token, live, cachedState, allocs,
                 listeners, promises, acts, call, cleanupCalls, notes>>

(***************************************************************************)
(* Callers: code that holds the machine, a timer that kept ctx.send, the   *)
(* job queue that settles a deferred computation.  They run when the       *)
(* stack is empty.                                                         *)
(***************************************************************************)
\* what a caller finds when its call starts
Pre ==
  [state |-> currentState, snap |-> cachedState.id, cleanup |-> cleanup, token |-> token,
   listeners |-> listeners, live |-> live]

\* an activation that can still act: the current one, one whose deferred
\* computation is pending, one whose cleanup function is installed
Remembered(t) == t = token \/ t = live \/ t = cleanup \/ t \in promises

\* a call from outside starts: the record of the call, and the history kept
\* for the activations that can still act
Enter(op, event, payload, myToken, frames) ==
  /\ stack' = frames
  /\ ret' = NoRet
  /\ call' = [op |-> op, event |-> event, payload |-> payload, myToken |-> myToken,
              pre |-> Pre]
  /\ notes' = <<>>
  /\ acts' = [t \in {u \in DOMAIN acts : Remembered(u)} |-> acts[t]]
  /\ cleanupCalls' = SelectSeq(cleanupCalls, Remembered)

CallSend(event, payload) ==
  /\ Idle /\ machine = "returned" /\ token < MaxToken
  /\ Enter("send", event, payload, 0, <<[SendFrame(event, payload) EXCEPT !.pre.notes = <<>>,
                                                 !.pre.effects = {t \in DOMAIN acts : Remembered(t)}]>>)
  /\ UNCHANGED <<initial, machine, currentState, cleanup, token, live, cachedState, allocs,
                 listeners, promises>>

CallStop ==
  /\ Idle /\ machine = "returned" /\ token < MaxToken
  /\ Enter("stop", None, Undefined, 0, <<StopFrame>>)
  /\ UNCHANGED <<initial, machine, currentState, cleanup, token, live, cachedState, allocs,
                 listeners, promises>>

Subscribed(l) == \E i \in 1..Len(listeners) : listeners[i] = l

\* listeners are interchangeable: L2 is subscribed only while L1 is
InOrder(ls) == (\E i \in 1..Len(ls) : ls[i] = "L2") => (Len(ls) >= 1 /\ ls[1] = "L1")

\* a subscribe that calls the listener with the current Snapshot
SubscribeAndDeliver(l) ==
  /\ Idle /\ machine = "returned" /\ token < MaxToken
  /\ listeners' = IF Subscribed(l) THEN listeners ELSE Append(listeners, l)
  /\ InOrder(listeners')
  /\ Enter("subscribe", l, Undefined, 0, <<ListenerFrame(l, cachedState.id)>>)
  /\ UNCHANGED <<initial, machine, currentState, cleanup, token, live, cachedState, allocs,
                 promises>>

\* subscribe, lines 134-139: listeners.add(listener)
Subscribe(l) ==
  /\ Idle /\ machine = "returned" /\ token < MaxToken
  /\ listeners' = IF Subscribed(l) THEN listeners ELSE Append(listeners, l)
  /\ InOrder(listeners')
  /\ Enter("subscribe", l, Undefined, 0, <<>>)
  /\ UNCHANGED <<initial, machine, currentState, cleanup, token, live, cachedState, allocs,
                 promises>>

\* the function subscribe returned: listeners.delete(listener)
Unsubscribe(l) ==
  /\ Idle /\ machine = "returned" /\ token < MaxToken
  /\ listeners' = SelectSeq(listeners, LAMBDA x : x # l)
  /\ InOrder(listeners')
  /\ Enter("unsubscribe", l, Undefined, 0, <<>>)
  /\ UNCHANGED <<initial, machine, currentState, cleanup, token, live, cachedState, allocs,
                 promises>>

\* tokens whose guarded sender user code may have kept: those of the remembered
\* activations and, for the ones the machine has long left, that of the first
Senders == DOMAIN acts \cup {2}

\* a timer or event handler calls a ctx.send it kept from an effect
LateGuardedSend(myToken, event, payload) ==
  /\ Idle /\ (token < MaxToken \/ myToken # token)
  /\ myToken \in Senders
  /\ Enter("guardedSend", event, payload, myToken, <<GuardedFrame(myToken, event, payload)>>)
  /\ UNCHANGED <<initial, machine, currentState, cleanup, token, live, cachedState, allocs,
                 listeners, promises>>

\* the deferred computation of activation myToken resolves with a value
Resolve(myToken, value) ==
  /\ Idle /\ (token < MaxToken \/ myToken # token)
  /\ myToken \in promises
  /\ promises' = promises \ {myToken}
  /\ Enter("resolve", "SUCCESS", value, myToken,
           <<SettleFrame(myToken, "then"), GuardedFrame(myToken, "SUCCESS", value)>>)
  /\ UNCHANGED <<initial, machine, currentState, cleanup, token, live, cachedState, allocs,
                 listeners>>

\* the deferred computation of activation myToken rejects with a reason
Reject(myToken, reason) ==
  /\ Idle /\ (token < MaxToken \/ myToken # token)
  /\ myToken \in promises
  /\ promises' = promises \ {myToken}
  /\ Enter("reject", "ERROR", reason, myToken,
           <<SettleFrame(myToken, "catch"), GuardedFrame(myToken, "ERROR", reason)>>)
  /\ UNCHANGED <<initial, machine, currentState, cleanup, token, live, cachedState, allocs,
                 listeners>>

(***************************************************************************)
(* Specification                                                           *)
(***************************************************************************)
EngineStep ==
  \/ CtorStart \/ CtorReturn
  \/ SendLookup \/ SendCleaned \/ SendEntered \/ SendNotified
  \/ RunStart \/ RunReturned \/ RunRecovered
  \/ GuardedCheck \/ GuardedReturn
  \/ StopStart \/ StopCleaned
  \/ SettleThen \/ SettleCatch

UserStep ==
  \/ \E event \in EffectEvents, payload \in EffectPayloads : EffectSend(event, payload)
  \/ \E result \in {Undefined, <<"function">>, <<"promise">>} : EffectReturn(result)
  \/ EffectThrow
  \/ CleanupReturn \/ CleanupThrow
  \/ ListenerReturn
  \/ \E event \in ListenerEvents, payload \in ListenerPayloads : ListenerCallsSend(event, payload)
  \/ Uncaught

CallerStep ==
  \/ \E event \in Events, payload \in Payloads : CallSend(event, payload)
  \/ CallStop
  \/ \E l \in Listeners : Subscribe(l)
  \/ \E l \in Listeners : Unsubscribe(l)
  \/ \E myToken \in Senders, event \in LateEvents, payload \in LatePayloads :
        LateGuardedSend(myToken, event, payload)
  \/ \E myToken \in promises : Resolve(myToken, Val("v"))
  \/ \E myToken \in promises : Reject(myToken, Val("rej"))

\* effects send, return or throw; cleanup functions return or throw; listeners
\* return or send
Next == EngineStep \/ UserStep \/ CallerStep

Spec == Init /\ [][Next]_vars

\* user code the documentation does not speak of: a cleanup function that calls
\* stop() or send(), a listener that throws
HostileStep ==
  \/ CleanupCallsStop
  \/ \E event \in CleanupEvents : CleanupCallsSend(event, Undefined)
  \/ ListenerThrow

NextHostile == Next \/ HostileStep

SpecHostile == Init /\ [][NextHostile]_vars

(***************************************************************************)
(* Properties                                                              *)
(***************************************************************************)
\* a guarded call is in progress whose activation the machine had left, by a
\* transition or by stop(), when the call was made
SupersededCallRunning ==
  \E i \in 1..Len(stack) : stack[i].kind = "guardedSend" /\ stack[i].superseded

\* C1: a guarded sender or deferred continuation of an activation that the
\* machine has transitioned away from, or that stop() has ended, never changes
\* the active state, never replaces the Snapshot and never notifies a listener.
C1_SupersededCallIsInert ==
  [][SupersededCallRunning => UNCHANGED <<currentState, cachedState, notes>>]_vars

\* state s declares no transition for event, or maps event to s itself
NoTransitionFor(s, event) ==
  \A i \in 1..Len(OnOf(s)) : OnOf(s)[i][1] = event => OnOf(s)[i][2] = s

\* C2: a send whose event the current state does not declare, or maps to the
\* current state, returns at once and changes nothing: the active state, the
\* Snapshot object and its payload, the cleanup handle, the token and the
\* listeners stay, no cleanup, effect or listener is invoked, nothing is
\* raised, whatever the payload.
C2_NoopSendChangesNothing ==
  [][(Running("send", "start") /\ NoTransitionFor(currentState, Top.event))
       => /\ UNCHANGED <<currentState, cachedState, allocs, cleanup, token, listeners,
                         promises, acts, cleanupCalls, notes>>
          /\ stack' = SubSeq(stack, 1, Len(stack) - 1)
          /\ ret' = Ok(Undefined)]_vars

\* a caller's send of a self-transition with a payload, in a state that holds
\* a cleanup handle and has a listener, has returned
C2_Witness ==
  /\ Idle /\ call.op = "send" /\ call.event = "SELF" /\ call.payload = Val("p1")
  /\ call.pre.state = "a" /\ call.pre.cleanup # 0 /\ listeners # <<>>
  /\ ret = Ok(Undefined)
  /\ currentState = "a" /\ cachedState.id = call.pre.snap /\ cachedState.payload = Undefined

\* how many times the cleanup function of activation t was invoked
Invocations(t) == Cardinality({i \in 1..Len(cleanupCalls) : cleanupCalls[i] = t})

\* C3: the cleanup function returned by an activation is invoked exactly once, on
\* the next transition out of that activation or on stop(), and before the enter
\* effect of the next state runs: it is never invoked twice, and once the machine
\* has left the activation it has been invoked.
C3_CleanupExactlyOnce ==
  \A t \in {u \in DOMAIN acts : acts[u].result = "function"} : Invocations(t) <= 1 /\ (live # t => Invocations(t) = 1)

EnterFailed ==
  /\ Running("send", "run") /\ HasRet
  /\ Top.act \in DOMAIN acts /\ acts[Top.act].result = "throw"
  /\ ~Declares(Top.meta.to, "ERROR")

\* send raises the enter error of its transition and leaves the machine in the target
RaisesEnterError ==
  /\ stack' = SubSeq(stack, 1, Len(stack) - 1)
  /\ ret' = Throw(SmuxError("enter", Meta(Top.pre.state, Top.event,
                                          TargetOf(Top.pre.state, Top.event)),
                            acts[Top.act].e))
  /\ currentState' = Top.meta.to /\ Top.meta.to = TargetOf(Top.pre.state, Top.event)
  /\ cachedState'.value = Top.meta.to
  /\ notes' = notes

\* C5, as claimed: when the target's enter effect throws during send and the
\* target declares no ERROR transition, send raises a SmuxError of phase 'enter'
\* with from/event/to of the transition, the machine is left in the target state
\* and this send notifies no listener.
C5_EnterThrowCommits == [][EnterFailed => RaisesEnterError]_vars

\* C5, amended: the same, for an effect that throws while its activation is
\* still the current one (it has not itself sent an event that moved the
\* machine); then the Snapshot is the one the transition made and no listener
\* has been invoked since the send was called.
C5_EnterThrowCommitsUnlessMoved ==
  [][(EnterFailed /\ ~acts[Top.act].moved)
       => /\ RaisesEnterError
          /\ cachedState'.payload = Top.payload
          /\ cachedState'.id # Top.pre.snap.id
          /\ notes' = Top.pre.notes]_vars

\* a caller's send from b to c, whose effect threw, has raised the enter error
\* with a listener subscribed
C5_Witness ==
  /\ Idle /\ call.op = "send" /\ call.pre.state = "b" /\ call.event = "GO"
  /\ call.payload = Val("p1") /\ listeners # <<>>
  /\ ret = Throw(SmuxError("enter", Meta("b", "GO", "c"), Val("boom")))
  /\ currentState = "c" /\ cachedState.value = "c" /\ cachedState.payload = call.payload
  /\ notes = <<>>

\* the run frame at depth i has caught its effect's exception and is sending ERROR
Recovering(i) == i >= 1 /\ i <= Len(stack) /\ stack[i].kind = "run" /\ stack[i].pc = "recover"

\* the state whose effect the run frame f ran
EnteredBy(f) == acts[f.myToken].state

\* the effect of f's state threw and that state maps ERROR to another state
Recoverable(f) ==
  /\ Declares(EnteredBy(f), "ERROR")
  /\ TargetOf(EnteredBy(f), "ERROR") # EnteredBy(f)

\* C6, as claimed: when an enter effect throws and its state declares an ERROR
\* transition to a different state, runEnterEffect returns normally to send or
\* to the constructor, with the machine in the ERROR target and the thrown value
\* as the payload of the Snapshot.
C6_ErrorTransitionRecovers ==
  [][(Running("run", "recover") /\ HasRet /\ Recoverable(Top))
       => /\ ret'.k = "ok"
          /\ currentState' = TargetOf(EnteredBy(Top), "ERROR")
          /\ cachedState'.value = currentState'
          /\ cachedState'.payload = Top.e]_vars

\* C6, amended: when an enter effect throws while its activation is still the
\* current one and its state declares an ERROR transition to a different state,
\* the engine sends ERROR with the thrown value, that send moves the machine to
\* the ERROR target with the thrown value as the payload of the new Snapshot,
\* the target's effect receives the thrown value as its payload, and the enter
\* error of the effect that threw is not raised.
C6_ErrorTransitionTaken ==
  [][/\ (Recovering(Len(stack) - 1) /\ Running("guardedSend", "start")
           /\ ~acts[Top.myToken].moved /\ Recoverable(stack[Len(stack) - 1]))
        => /\ Len(stack') = Len(stack) + 1
           /\ stack'[Len(stack')].kind = "send"
           /\ stack'[Len(stack')].event = "ERROR"
           /\ stack'[Len(stack')].payload = stack[Len(stack) - 1].e
     /\ (Recovering(Len(stack) - 2) /\ Running("send", "start")
           /\ Recoverable(stack[Len(stack) - 2]))
        => /\ currentState' = TargetOf(EnteredBy(stack[Len(stack) - 2]), "ERROR")
           /\ cachedState'.value = currentState'
           /\ cachedState'.payload = stack[Len(stack) - 2].e
           /\ cachedState'.id # cachedState.id
     /\ (Recovering(Len(stack) - 3) /\ Running("run", "start")
           /\ Recoverable(stack[Len(stack) - 3]))
        => /\ Len(stack') = Len(stack) + 1
           /\ stack'[Len(stack')].kind = "effect"
           /\ stack'[Len(stack')].payload = stack[Len(stack) - 3].e
     /\ (Running("run", "recover") /\ HasRet /\ ~acts[Top.myToken].moved /\ Recoverable(Top))
        => ret' # Throw(SmuxError("enter", Top.meta, Top.e))]_vars

\* construction with initial state a, whose effect threw, has returned the
\* machine in b with the thrown value as payload
C6_Witness ==
  /\ Idle /\ call.op = "new" /\ initial = "a" /\ machine = "returned"
  /\ acts[2].result = "throw" /\ 3 \in DOMAIN acts /\ acts[3].state = "b"
  /\ ret = Ok(Undefined)
  /\ currentState = "b" /\ cachedState.value = "b" /\ cachedState.payload = Val("boom")

\* construction is over and the initial effect threw without an ERROR
\* transition having been taken for it
InitFailed ==
  /\ Idle /\ call.op = "new"
  /\ 2 \in DOMAIN acts /\ acts[2].result = "throw"
  /\ (~Declares(initial, "ERROR") \/ TargetOf(initial, "ERROR") = initial \/ acts[2].moved)

\* C7: when the initial state's enter effect throws and no ERROR transition
\* recovers it, construction raises a SmuxError of phase 'init' whose 'from' is
\* the initial state, and no machine is returned.
C7_InitErrorNamesInitial ==
  InitFailed => /\ machine = "failed"
                /\ ret.k = "throw" /\ IsSmuxError(ret.v) /\ Phase(ret.v) = "init"
                /\ ret.v[3] = initial /\ ret.v[4] = None /\ ret.v[5] = None

\* the job queue runs the continuation of a settled deferred computation whose
\* activation is still the live one (SUCCESS after resolve, ERROR after reject)
\* and the top frame, depth frames up, is its guarded sender or its send
ContinuationOfLive(depth, kind, pc) ==
  /\ call.op \in {"resolve", "reject"}
  /\ Len(stack) = depth /\ stack[1].kind = "settle"
  /\ Running(kind, pc) /\ Top.event = call.event /\ Top.payload = call.payload
  /\ live = call.myToken

\* the machine moves to the state the current one maps the settlement's event
\* to, with the settled value as the payload of a new Snapshot
SettlementMoves ==
  /\ currentState' = TargetOf(currentState, call.event)
  /\ cachedState'.value = currentState'
  /\ cachedState'.payload = call.payload
  /\ cachedState'.id # cachedState.id

\* C8: when a deferred computation returned by an enter effect settles while
\* the machine is still in that activation, its continuation sends SUCCESS with
\* the resolved value (ERROR with the reason) without any call from outside,
\* and when the state maps that event to another state the machine moves there
\* with that value as the payload of a new Snapshot, at once or after the
\* cleanup function the send found has run.
C8_SettlementMovesMachine ==
  [][/\ ContinuationOfLive(2, "guardedSend", "start")
        => /\ Len(stack') = 3
           /\ stack'[3].kind = "send"
           /\ stack'[3].event = call.event /\ stack'[3].payload = call.payload
     /\ (ContinuationOfLive(3, "send", "start") /\ ~NoTransitionFor(currentState, call.event))
        => \/ SettlementMoves
           \/ /\ Len(stack') = 4 /\ stack'[4].kind = "cleanupFn"
              /\ stack'[3].pc = "cleanup"
              /\ UNCHANGED <<currentState, cachedState>>
     /\ (ContinuationOfLive(3, "send", "cleanup") /\ HasRet)
        => SettlementMoves]_vars

\* C9: an exception raised while the continuation of a deferred computation
\* performs its SUCCESS or ERROR send is discarded: when the continuation is
\* over, nothing is thrown to anyone.
C9_ContinuationSwallows ==
  (Idle /\ call.op \in {"resolve", "reject"}) => ret = Ok(Undefined)

\* the continuation of a resolved computation moved the machine from a to c,
\* c's effect threw with no ERROR transition to recover it, and the
\* continuation is over
C9_Witness ==
  /\ Idle /\ call.op = "resolve" /\ call.pre.state = "a"
  /\ token = call.pre.token + 1 /\ currentState = "c"
  /\ token \in DOMAIN acts /\ acts[token].result = "throw"
  /\ ret = Ok(Undefined)

\* C10: every state change is made by a send; the new Snapshot's payload and
\* the payload handed to the entered state's effect are the payload argument of
\* that send (undefined when none was passed, as at construction), whatever the
\* payload of the Snapshot it replaces; a send that does not transition leaves
\* the Snapshot alone, and the Snapshot is replaced only when the state changes.
C10_PayloadIsTheSendsArgument ==
  [][/\ (currentState' # currentState)
        => /\ Running("send", "start") \/ Running("send", "cleanup")
           /\ cachedState'.value = currentState'
           /\ cachedState'.payload = Top.payload
           /\ stack'[Len(stack')].kind = "run"
           /\ stack'[Len(stack')].payload = Top.payload
     /\ (Running("run", "start") /\ currentState \in States)
        => /\ stack'[Len(stack')].kind = "effect"
           /\ stack'[Len(stack')].payload = Top.payload
           /\ stack'[Len(stack')].payload = cachedState.payload
     /\ (Running("send", "start") /\ NoTransitionFor(currentState, Top.event))
        => cachedState' = cachedState
     /\ (cachedState' # cachedState)
        => currentState' # currentState \/ Running("ctor", "start")]_vars

\* a caller's send without payload, made while the Snapshot carried p1, has
\* moved the machine and the entered state's effect is running
C10_Witness ==
  /\ Len(stack) = 3 /\ call.op = "send" /\ call.payload = Undefined
  /\ stack[1].kind = "send" /\ stack[1].pre.snap.payload = Val("p1")
  /\ stack[3].kind = "effect" /\ stack[3].payload = Undefined
  /\ currentState # stack[1].pre.state
  /\ cachedState.payload = Undefined

Observable ==
  \/ Idle /\ machine = "returned"
  \/ stack # <<>> /\ Top.kind \in {"effect", "cleanupFn", "listener"}

\* the event names state s declares, in declaration order
DeclaredEvents(s) ==
  IF s \in DOMAIN Table THEN [i \in 1..Len(Table[s]) |-> Table[s][i][1]] ELSE <<>>

\* C12: wherever engine.state can be read, its value is the active state and
\* its nextEvents are the events that state declares, in declaration order; and
\* while the effect of a newly entered state runs, before it has sent anything,
\* the Snapshot already carries the state and the payload the effect was given.
C12_SnapshotMatchesActiveState ==
  Observable
    => /\ cachedState.value = currentState
       /\ cachedState.nextEvents = DeclaredEvents(currentState)
       /\ (stack # <<>> /\ Top.kind = "effect" /\ Top.myToken = token)
            => /\ cachedState.value = Top.meta.to
               /\ cachedState.payload = Top.payload

\* the effect of b runs, entered by a caller's send from a with payload p1,
\* and the Snapshot shows b, b's events and p1
C12_Witness ==
  /\ Len(stack) = 3 /\ stack[1].kind = "send" /\ stack[1].pre.state = "a"
  /\ stack[1].payload = Val("p1")
  /\ Top.kind = "effect" /\ Top.myToken = token /\ Top.payload = Val("p1")
  /\ currentState = "b" /\ cachedState.value = "b"
  /\ cachedState.nextEvents = <<"GO", "ERROR">> /\ cachedState.payload = Val("p1")

\* the send frame at depth i, if it is still on the stack after the step
SendFrameStays(i) ==
  /\ i <= Len(stack) /\ i <= Len(stack')
  /\ stack[i].kind = "send" /\ stack'[i].kind = "send"

\* C13: a send goes through its steps in one order.  Its frame moves from the
\* lookup to the cleanup of the outgoing state (when there is one), then to the
\* commit, which rotates the token and installs the new state and Snapshot in
\* one step, then to the enter effect and then to the notification, never
\* backwards.  While the cleanup runs nothing is committed; at the commit the
\* cleanup function the send found has been invoked; while the effect runs no
\* listener of this send has been called; when listeners are called the effect
\* is over.
C13_SendStepsInOrder ==
  [][/\ \A i \in 1..Len(stack) :
          SendFrameStays(i)
            => <<stack[i].pc, stack'[i].pc>> \in
                 {<<"start", "start">>, <<"start", "cleanup">>, <<"start", "run">>,
                  <<"cleanup", "cleanup">>, <<"cleanup", "run">>,
                  <<"run", "run">>, <<"run", "notify">>, <<"notify", "notify">>}
     /\ \A i \in 1..Len(stack) :
          (stack[i].kind = "send" /\ stack[i].pc \in {"start", "cleanup"})
            => /\ stack[i].act = 0 /\ stack[i].idx = 0
               /\ currentState = stack[i].pre.state /\ cachedState = stack[i].pre.snap
     /\ \A i \in 1..Len(stack) :
          (SendFrameStays(i) /\ stack[i].pc \in {"start", "cleanup"} /\ stack'[i].pc = "run")
            => /\ token' # token /\ currentState' # currentState /\ cachedState' # cachedState
               /\ stack[i].pre.cleanup # 0
                    => \E k \in 1..Len(cleanupCalls) : cleanupCalls[k] = stack[i].pre.cleanup
               /\ cleanup' = 0
               /\ Len(stack') = i + 1 /\ stack'[i + 1].kind = "run"
     /\ \A i \in 1..Len(stack) :
          (stack[i].kind = "send" /\ stack[i].pc = "run")
            => stack[i].act # 0 /\ stack[i].idx = 0
     /\ \A i \in 1..Len(stack) :
          (stack[i].kind = "send" /\ stack[i].pc = "notify")
            => /\ stack[i].act # 0
               /\ stack[i].act \in DOMAIN acts => acts[stack[i].act].result # "running"]_vars

\* a caller's send from a, whose cleanup function was installed, has reached
\* the second listener of its notification after b's effect returned
C13_Witness ==
  /\ Len(stack) = 2 /\ stack[1].kind = "send" /\ stack[1].pc = "notify" /\ stack[1].idx = 2
  /\ stack[1].pre.state = "a" /\ stack[1].pre.cleanup = 2
  /\ cleanupCalls = <<2>> /\ currentState = "b"
  /\ acts[stack[1].act].state = "b" /\ acts[stack[1].act].result = "function"
  /\ Top.kind = "listener"

\* the top frame is a send that calls its next listener in this step
CallsListener ==
  /\ stack # <<>> /\ Top.kind = "send" /\ Top.pc \in {"run", "notify"}
  /\ Len(stack') = Len(stack) + 1 /\ stack'[Len(stack')].kind = "listener"

\* C14: a notification pass calls the subscribed listeners one after the other
\* in subscription order, ends only after the last of them, and hands every
\* listener of the pass the same Snapshot object, also when a listener called
\* earlier in the pass has itself called send.
C14_OnePassOneSnapshot ==
  [][/\ CallsListener
        => /\ stack'[Len(stack')].l = listeners[Top.idx + 1]
           /\ stack'[Len(stack) ].idx = Top.idx + 1
           /\ Top.passed # 0 => stack'[Len(stack')].snap = Top.passed
     /\ (stack # <<>> /\ Top.kind = "send" /\ Top.pc \in {"run", "notify"}
           /\ ret.k = "ok" /\ Len(stack') < Len(stack))
        => Top.idx = Len(listeners)]_vars

\* the top frame is a send that has committed and returns normally in this step
SendReturns ==
  /\ stack # <<>> /\ Top.kind = "send" /\ Top.pc \in {"run", "notify"}
  /\ ret.k = "ok" /\ Len(stack') < Len(stack)

\* listener l was handed Snapshot id in the listener invocations ns
Delivered(ns, l, id) == \E k \in 1..Len(ns) : ns[k] = <<l, id>>

\* C15: when a send that changed the state returns, the Snapshot it installed
\* has been delivered to every subscribed listener, whoever made the send: a
\* caller, an enter effect, the ERROR recovery or a deferred continuation.
C15_EverySnapshotDelivered ==
  [][SendReturns
       => \A k \in 1..Len(listeners) : Delivered(notes, listeners[k], Top.made)]_vars

\* listener l is among ls
Among(ls, l) == \E k \in 1..Len(ls) : ls[k] = l

\* ls without l, the others in their order
Without(ls, l) == SelectSeq(ls, LAMBDA x : x # l)

\* C16: subscribe adds the listener after the ones already subscribed and calls
\* nobody; the function it returned removes that listener and leaves the
\* others subscribed in their order, and removes nothing when the listener is
\* not subscribed; a listener is called only while it is subscribed.
C16_SubscribeAndUnsubscribe ==
  [][/\ (Idle /\ call' # call /\ call'.op = "subscribe")
        => /\ stack' = <<>> /\ notes' = <<>>
           /\ listeners' = IF Among(listeners, call'.event) THEN listeners
                           ELSE Append(listeners, call'.event)
           /\ UNCHANGED <<currentState, cachedState>>
     /\ (Idle /\ call' # call /\ call'.op = "unsubscribe")
        => /\ stack' = <<>> /\ notes' = <<>>
           /\ listeners' = Without(listeners, call'.event)
           /\ ~Among(listeners, call'.event) => listeners' = listeners
           /\ UNCHANGED <<currentState, cachedState>>
     /\ (Len(stack') = Len(stack) + 1 /\ stack'[Len(stack')].kind = "listener")
        => Among(listeners, stack'[Len(stack')].l)]_vars

\* after a state change, the function subscribe returned for L2 has been called
\* and removed L2 alone
C16_Witness ==
  /\ Idle /\ call.op = "unsubscribe" /\ call.event = "L2"
  /\ call.pre.listeners = <<"L1", "L2">> /\ listeners = <<"L1">>
  /\ cachedState.id >= 2

\* C17: a stop() called on a machine that was stopped and has entered no state
\* since finds no cleanup handle, invokes no cleanup function, returns at once
\* and changes neither the active state, nor the Snapshot, nor the listeners,
\* and notifies nobody.
C17_StopIsIdempotent ==
  [][(Running("stop", "start") /\ call.op = "stop" /\ call.pre.live = 0)
       => /\ cleanup = 0
          /\ stack' = <<>> /\ ret' = Ok(Undefined)
          /\ UNCHANGED <<currentState, cachedState, cleanupCalls, notes, listeners>>]_vars

\* a second stop() has returned on a machine that had changed state before the
\* first one
C17_Witness ==
  /\ Idle /\ call.op = "stop" /\ call.pre.live = 0 /\ ret = Ok(Undefined)
  /\ cachedState.id >= 2 /\ cleanupCalls # <<>>

\* C18: stop() returns normally to its caller whatever the cleanup function
\* does.
C18_StopNeverRaises == (Idle /\ call.op = "stop") => ret.k = "ok"

\* C19: the machine is never committed to a state that is no key of the state
\* table, and a send of a caller whose event names such a target completes
\* with an error.
C19_MissingTargetIsAnError ==
  /\ currentState \in DOMAIN Table
  /\ (Idle /\ call.op = "send"
        /\ TargetOf(call.pre.state, call.event) \notin DOMAIN Table \cup {None})
       => ret.k = "throw"

\* C20: the cleanup handle the engine holds is the one returned by the enter
\* effect of the current activation of the active state.
C20_CleanupBelongsToActiveState ==
  cleanup # 0 => /\ cleanup = token
                 /\ cleanup \in DOMAIN acts
                 /\ acts[cleanup].state = currentState

\* the top frame is the guarded sender of the running effect of the current
\* activation, called by that effect
SentFromEffect ==
  /\ Len(stack) >= 2 /\ Running("guardedSend", "start")
  /\ stack[Len(stack) - 1].kind = "effect"
  /\ stack[Len(stack) - 1].myToken = Top.myToken
  /\ token = Top.myToken

\* C21: a guarded send made by a running enter effect of the current activation
\* is a call of send on the spot, on top of the effect's frame; the active
\* state and the Snapshot change only in the commit step of the send on top of
\* the stack, to that send's target and payload, so that when the outer send
\* returns they are those of the last transition of the chain; and the outer
\* send returns only after the effect it started has.
C21_EffectSendIsSynchronous ==
  [][/\ SentFromEffect
        => /\ Len(stack') = Len(stack) + 1
           /\ SubSeq(stack', 1, Len(stack) - 1) = SubSeq(stack, 1, Len(stack) - 1)
           /\ stack'[Len(stack')] = SendFrame(Top.event, Top.payload)
     /\ (~Running("ctor", "start") /\ <<currentState, cachedState>>' # <<currentState, cachedState>>)
        => /\ stack # <<>> /\ Top.kind = "send" /\ Top.pc \in {"start", "cleanup"}
           /\ currentState' = TargetOf(currentState, Top.event)
           /\ cachedState'.value = currentState'
           /\ cachedState'.payload = Top.payload
           /\ cachedState'.id = allocs
     /\ (stack # <<>> /\ Top.kind = "send" /\ Len(stack') < Len(stack) /\ Top.act # 0)
        => /\ Top.act \in DOMAIN acts => acts[Top.act].result # "running"
           /\ cachedState.id = allocs - 1]_vars

\* a caller's send c -> a has returned after a's effect sent GO with its own
\* payload: the machine is in b with the payload of the effect's send
C21_Witness ==
  /\ Idle /\ call.op = "send" /\ call.pre.state = "c" /\ call.event = "GO"
  /\ call.payload = Val("p1") /\ ret = Ok(Undefined)
  /\ token = call.pre.token + 2 /\ listeners # <<>>
  /\ currentState = "b" /\ cachedState.value = "b" /\ cachedState.payload = Val("e1")
  /\ notes # <<>>

\* the frame that called the top frame
Caller == stack[Len(stack) - 1]

\* C22: the context an enter effect is called with matches the activation: at
\* construction 'to' is the initial state, 'from' and 'event' are absent and
\* the payload is undefined; after a transition 'from' is the state the send
\* found active, 'event' the event sent, 'to' the state entered and the payload
\* the one sent; the event sent for a settled deferred computation is SUCCESS or ERROR.
C22_MetaMatchesActivation ==
  [][/\ (Running("run", "start") /\ HasRun(currentState))
        => LET ctx == stack'[Len(stack')]
           IN /\ Len(stack') = Len(stack) + 1 /\ ctx.kind = "effect"
              /\ ctx.meta.to = currentState
              /\ IF Caller.kind = "ctor"
                 THEN /\ ctx.meta.from = None /\ ctx.meta.event = None
                      /\ ctx.payload = Undefined /\ currentState = initial
                 ELSE /\ Caller.kind = "send"
                      /\ ctx.meta.from = Caller.pre.state /\ ctx.meta.from # ctx.meta.to
                      /\ ctx.meta.event = Caller.event
                      /\ ctx.meta.to = TargetOf(Caller.pre.state, Caller.event)
                      /\ ctx.payload = Caller.payload
     /\ (Len(stack) >= 2 /\ Running("guardedSend", "start") /\ Caller.kind = "settle"
           /\ token = Top.myToken)
        => /\ stack'[Len(stack')].kind = "send"
           /\ stack'[Len(stack')].event = IF Caller.pc = "then" THEN "SUCCESS" ELSE "ERROR"
           /\ Caller.pc = "then" => stack'[Len(stack')].payload = call.payload]_vars

\* the effect of c runs after the deferred computation of a resolved
C22_Witness ==
  /\ Running("effect", "body") /\ call.op = "resolve"
  /\ Top.meta = Meta("a", "SUCCESS", "c") /\ Top.payload = Val("v")
  /\ currentState = "c"

\* the values user code throws: an enter effect, a cleanup function
Thrown == {Val("boom"), Val("cboom")}

\* C23: every SmuxError that construction or a send of a caller raises has one
\* of the three phases, names the states and the event of the transition that
\* was attempted, and has as its cause the value the enter effect (init, enter)
\* or the cleanup function (cleanup) threw.
C23_ErrorsCarryPhaseAndCause ==
  (Idle /\ call.op \in {"new", "send"} /\ ret.k = "throw" /\ IsSmuxError(ret.v))
    => /\ Phase(ret.v) \in {"init", "enter", "cleanup"}
       /\ Cause(ret.v) \in Thrown
       /\ Phase(ret.v) = "cleanup" <=> Cause(ret.v) = Val("cboom")
       /\ call.op = "new" <=> Phase(ret.v) = "init"
       /\ call.op = "send" => /\ ret.v[3] \in DOMAIN Table
                              /\ ret.v[4] \in Events
                              /\ ret.v[5] = TargetOf(ret.v[3], ret.v[4])

\* a call a stopped machine receives from the activation that was stopped or
\* from an earlier one: a guarded sender that was kept, the settlement of a
\* deferred computation
LateCallOnStopped ==
  /\ call.op \in {"guardedSend", "resolve", "reject"}
  /\ call.pre.live = 0

\* a caller's send of an event the state declares starts on a stopped machine
SendOnStopped ==
  /\ Len(stack) = 1 /\ Running("send", "start")
  /\ call.op = "send" /\ call.pre.live = 0
  /\ ~IsNoop(currentState, Top.event)

\* C24: on a machine that was stopped, a caller's send of a declared event
\* finds no cleanup handle and commits at once: the state and the Snapshot
\* change and the target's effect is entered under the new token; while the
\* machine is stopped, the guarded senders and the settlements of the stopped
\* activation change neither the state nor the Snapshot and notify nobody.
C24_SendWorksAfterStop ==
  [][/\ SendOnStopped
        => /\ cleanup = 0
           /\ currentState' = TargetOf(currentState, Top.event)
           /\ cachedState'.id # cachedState.id /\ cachedState'.value = currentState'
           /\ token' # token /\ live' = token'
           /\ stack'[Len(stack')].kind = "run"
     /\ (Len(stack) = 2 /\ Running("run", "start") /\ call.op = "send" /\ call.pre.live = 0
           /\ HasRun(currentState))
        => stack'[Len(stack')].myToken = token
     /\ LateCallOnStopped => UNCHANGED <<currentState, cachedState, notes>>]_vars

\* a guarded sender captured in an earlier activation of the state that is
\* active again is called with an event that state maps to another state
SenderOfEarlierActivation ==
  /\ Running("guardedSend", "start")
  /\ Top.myToken # live /\ live # 0 /\ live = token
  /\ CapturedIn(Top.myToken) = currentState
  /\ ~IsNoop(currentState, Top.event)

\* C25: a guarded sender or continuation captured in an earlier activation of
\* the state that is active again does nothing: it returns at once, no send is
\* started, and state, Snapshot, cleanup handle and token stay.
C25_TokenIsPerActivation ==
  [][SenderOfEarlierActivation
       => /\ stack' = SubSeq(stack, 1, Len(stack) - 1) /\ ret' = Ok(Undefined)
          /\ UNCHANGED <<currentState, cachedState, allocs, cleanup, token, live, notes,
                         cleanupCalls>>]_vars

\* the sender of the first activation of the initial state was called after the
\* machine had left that state and entered it again, and has returned
C25_Witness ==
  /\ Idle /\ call.op = "guardedSend" /\ call.myToken = 2 /\ call.event = "GO"
  /\ call.pre.state = initial /\ call.pre.live = call.pre.token /\ call.pre.token >= 4
  /\ ret = Ok(Undefined)
  /\ currentState = initial /\ token = call.pre.token /\ cachedState.id = call.pre.snap

C27_StopRotatesToken == (Idle /\ call.op = "stop") => token # call.pre.token

\* C28: the ERROR recovery does not come back to a state it is already
\* recovering from: the effects whose exceptions are being recovered on the
\* call stack are of different states.  (Where this fails, a configuration
\* whose effects always throw repeats the cycle without end.)
C28_RecoveryIsOneShot ==
  \A i, j \in 1..Len(stack) :
    (i < j /\ Recovering(i) /\ Recovering(j)) => EnteredBy(stack[i]) # EnteredBy(stack[j])

\* the SUCCESS send of a resolved deferred computation has moved the machine
\* and has then failed
SuccessMovedThenFailed ==
  /\ call.op = "resolve" /\ Len(stack) = 1 /\ Running("settle", "then")
  /\ ret.k = "throw" /\ token # call.pre.token

\* the failure continuation of that settlement is sending ERROR
FollowUpError ==
  /\ call.op = "resolve" /\ Len(stack) = 2 /\ stack[1].pc = "catch"
  /\ Running("guardedSend", "start") /\ token # call.pre.token

\* C29: when the SUCCESS send of a settlement has moved the machine and then
\* failed, the failure continuation sends ERROR through the guarded sender of
\* the same activation, with the failure as payload, and that sender returns
\* at once: state, Snapshot, token and cleanup handle stay and nobody is
\* notified.
C29_FollowUpErrorIsInert ==
  [][/\ SuccessMovedThenFailed
        => stack' = <<[Top EXCEPT !.pc = "catch"],
                      GuardedFrame(call.myToken, "ERROR", ret.v)>>
     /\ FollowUpError
        => /\ Top.myToken = call.myToken /\ Top.event = "ERROR"
           /\ stack' = <<stack[1]>> /\ ret' = Ok(Undefined)
           /\ UNCHANGED <<currentState, cachedState, allocs, token, live, cleanup, notes,
                          cleanupCalls>>]_vars

\* a settlement is over whose SUCCESS moved the machine from a to c, where the
\* effect threw: the machine is in c
C29_Witness ==
  /\ Idle /\ call.op = "resolve" /\ call.pre.state = "a" /\ call.pre.live = call.myToken
  /\ token = call.pre.token + 1 /\ acts[token].result = "throw"
  /\ currentState = "c" /\ cachedState.value = "c" /\ cachedState.payload = Val("v")
  /\ ret = Ok(Undefined)

\* a settlement is being handled whose event (SUCCESS after resolve, ERROR
\* after reject) the active state does not declare
UndeclaredSettlement ==
  /\ call.op \in {"resolve", "reject"} /\ ~Idle
  /\ ~Among(DeclaredEvents(call.pre.state), call.event)

\* C30: while the settlement of a deferred computation is handled in a state
\* that does not declare its event, the active state, the Snapshot, the
\* cleanup handle and the token stay, no cleanup function, effect or listener
\* is called and nothing is raised, by any step.
C30_UndeclaredSettlementIsSilent ==
  [][UndeclaredSettlement
       => /\ UNCHANGED <<currentState, cachedState, allocs, cleanup, token, live, listeners,
                         acts, cleanupCalls, notes>>
          /\ ret'.k # "throw"
          /\ \A i \in 1..Len(stack') : stack'[i].kind \in {"settle", "guardedSend", "send"}]_vars

\* the deferred computation of the live activation of c, which has a listener,
\* rejected and the rejection has been handled
C30_Witness ==
  /\ Idle /\ call.op = "reject" /\ call.pre.state = "c" /\ call.pre.live = call.myToken
  /\ call.pre.token = call.myToken /\ listeners # <<>>
  /\ ret = Ok(Undefined)
  /\ currentState = "c" /\ token = call.pre.token /\ cachedState.id = call.pre.snap
  /\ notes = <<>>

\* the cleanup function of the live activation was invoked and its handle
\* cleared, and the activation is still the current one
CleanupConsumed ==
  /\ cleanup = 0 /\ live = token /\ token \in DOMAIN acts
  /\ acts[token].result = "function" /\ ~acts[token].moved
  /\ Invocations(token) = 1

\* C31: when the cleanup function throws during a send, the handle is cleared,
\* the token, the state and the Snapshot stay and the send raises the cleanup
\* error; afterwards a send of a declared event commits at once without
\* invoking a cleanup function, and the guarded sender of the activation still
\* calls send.
C31_ThrowingCleanupIsConsumed ==
  [][/\ (Running("send", "cleanup") /\ ret.k = "throw")
        => /\ cleanup' = 0
           /\ UNCHANGED <<token, live, currentState, cachedState, cleanupCalls, notes>>
           /\ stack' = SubSeq(stack, 1, Len(stack) - 1)
           /\ ret' = Throw(SmuxError("cleanup", Top.meta, ret.v))
     /\ (CleanupConsumed /\ Running("send", "start") /\ ~IsNoop(currentState, Top.event))
        => /\ currentState' = TargetOf(currentState, Top.event)
           /\ token' = token + 1 /\ cachedState'.value = currentState'
           /\ cleanupCalls' = cleanupCalls
           /\ stack'[Len(stack')].kind = "run"
     /\ (CleanupConsumed /\ Running("guardedSend", "start") /\ Top.myToken = live)
        => stack' = Append([stack EXCEPT ![Len(stack)].pc = "ret"],
                           SendFrame(Top.event, Top.payload))]_vars

\* after a send that the cleanup function aborted, a caller's send has moved
\* the machine, and the cleanup function was invoked once
C31_Witness ==
  /\ Idle /\ call.op = "send" /\ ret = Ok(Undefined)
  /\ call.pre.cleanup = 0 /\ call.pre.live = call.pre.token
  /\ call.pre.token \in DOMAIN acts /\ acts[call.pre.token].result = "function"
  /\ ~acts[call.pre.token].moved /\ Invocations(call.pre.token) = 1
  /\ currentState # call.pre.state /\ token > call.pre.token

\* C32: a cleanup function is not invoked while an invocation of it is still
\* running: no two of the cleanup invocations on the call stack are of the
\* same function.
C32_CleanupNotReentered ==
  \A i, j \in 1..Len(stack) :
    (i < j /\ stack[i].kind = "cleanupFn" /\ stack[j].kind = "cleanupFn")
      => stack[i].owner # stack[j].owner

\* C33: the Snapshot a listener is called with is the one engine.state returns
\* at that moment, which is the one allocated last.
C33_ListenerGetsCurrentSnapshot ==
  [][CallsListener
       => /\ stack'[Len(stack')].snap = cachedState'.id
          /\ cachedState' = cachedState /\ cachedState.id = allocs - 1
          /\ notes' = Append(notes, <<stack'[Len(stack')].l, cachedState.id>>)]_vars

\* the second listener of a pass is running after the first one's send has
\* replaced the Snapshot the pass started for
C33_Witness ==
  /\ Len(stack) = 2 /\ Running("listener", "body") /\ Top.l = "L2"
  /\ stack[1].kind = "send" /\ stack[1].made # 0 /\ stack[1].made < Top.snap
  /\ Top.snap = cachedState.id

\* C34: a listener is not called twice in a row with the same Snapshot object:
\* between two calls of a listener with the same Snapshot there is a call of
\* it with another one.
C34_NoRepeatedSnapshot ==
  \A i, j \in 1..Len(notes) :
    (i < j /\ notes[i] = notes[j])
      => \E k \in (i + 1)..(j - 1) : notes[k][1] = notes[i][1] /\ notes[k][2] # notes[i][2]

\* what the engine holds, the history of invocations included
Engine ==
  <<currentState, cachedState, allocs, cleanup, token, live, listeners, promises, acts,
    cleanupCalls, notes>>

\* C35: a guarded sender whose token is current calls send with its own event
\* and payload and does nothing else, and gives its caller what that send
\* returned or raised; a guarded sender whose token is stale returns at once;
\* neither step touches the engine.
C35_GuardedSendIsSend ==
  [][/\ (Running("guardedSend", "start") /\ token = Top.myToken)
        => /\ stack' = Append([stack EXCEPT ![Len(stack)].pc = "ret"],
                              SendFrame(Top.event, Top.payload))
           /\ UNCHANGED Engine
     /\ (Running("guardedSend", "start") /\ token # Top.myToken)
        => /\ stack' = SubSeq(stack, 1, Len(stack) - 1) /\ ret' = Ok(Undefined)
           /\ UNCHANGED Engine
     /\ (Running("guardedSend", "ret") /\ HasRet)
        => /\ stack' = SubSeq(stack, 1, Len(stack) - 1) /\ ret' = ret
           /\ UNCHANGED Engine]_vars

\* a sender kept by the live activation was called later, its send moved the
\* machine and raised the enter error of the target, which the caller got
C35_Witness ==
  /\ Idle /\ call.op = "guardedSend" /\ call.myToken = call.pre.token
  /\ call.pre.live = call.pre.token
  /\ ret.k = "throw" /\ IsSmuxError(ret.v) /\ Phase(ret.v) = "enter"
  /\ ret.v[4] = call.event /\ ret.v[3] = call.pre.state
  /\ currentState = TargetOf(call.pre.state, call.event)
  /\ cachedState.payload = call.payload

\* a listener has returned to its pass after a send it made replaced the
\* Snapshot
ListenerSentAndReturned ==
  /\ Running("send", "notify") /\ ret.k = "ok"
  /\ Top.passed # cachedState.id

\* the send on top of the stack, made by a listener, has moved the machine and
\* returns in this step
ListenersSendReturns ==
  /\ Len(stack) >= 2 /\ Top.kind = "send" /\ Caller.kind = "listener"
  /\ Top.act # 0 /\ Len(stack') < Len(stack) /\ ret'.k = "ok"

\* C36: a send made by a listener is a nested call that returns only after its
\* own effect has ended and its own pass has called every listener; the outer
\* pass then goes on with the listener after the one that sent, or returns if
\* that was the last; and while a listener is on the call stack some step of
\* the engine or of user code is always possible.
C36_ListenerMaySend ==
  /\ []((\E i \in 1..Len(stack) : stack[i].kind = "listener")
          => ENABLED (EngineStep \/ UserStep))
  /\ [][/\ (InUser("listener") /\ Len(stack') = Len(stack) + 1)
           => /\ stack'[Len(stack')].kind = "send" /\ stack'[Len(stack')].pc = "start"
              /\ SubSeq(stack', 1, Len(stack) - 1) = SubSeq(stack, 1, Len(stack) - 1)
        /\ ListenersSendReturns
           => /\ Top.idx = Len(listeners)
              /\ Top.act \in DOMAIN acts => acts[Top.act].result # "running"
              /\ \A k \in 1..Len(listeners) :
                   \E n \in 1..Len(notes) : n > Len(Top.pre.notes) /\ notes[n][1] = listeners[k]
        /\ ListenerSentAndReturned
           => IF Top.idx < Len(listeners)
              THEN /\ Len(stack') = Len(stack) + 1
                   /\ stack'[Len(stack')].kind = "listener"
                   /\ stack'[Len(stack')].l = listeners[Top.idx + 1]
                   /\ stack'[Len(stack) ].idx = Top.idx + 1
              ELSE stack' = SubSeq(stack, 1, Len(stack) - 1) /\ ret' = Ok(Undefined)]_vars

\* a caller's send has returned after its first listener sent: the nested pass
\* called both listeners, and the outer pass then called the second
C36_Witness ==
  /\ Idle /\ call.op = "send" /\ ret = Ok(Undefined) /\ listeners = <<"L1", "L2">>
  /\ Len(notes) = 4
  /\ notes[1][1] = "L1" /\ notes[2][1] = "L1" /\ notes[3][1] = "L2" /\ notes[4][1] = "L2"
  /\ notes[1][2] < notes[2][2]

====
